---- MODULE Spec2Model ----
(***************************************************************************)
(* generateImage of services/geminiService.ts: credential resolution,      *)
(* dispatch on the model tag, unwrapping of the backend response and the   *)
(* mapping of every failure to an error code.                              *)
(*                                                                         *)
(* Strings the code inspects (prompts, error messages) are sequences of    *)
(* one-character strings, so that trim(), toLowerCase() and includes()     *)
(* are computed as the code computes them.                                 *)
(***************************************************************************)
EXTENDS Integers, Sequences, FiniteSets, TLC

VARIABLES
    file,       \* which source file is loaded: "geminiService" or "part_001"
    env,        \* process.env.API_KEY ("" when unset)
    defaultAi,  \* part_001's module-level client handle (its credential)
    pc,         \* pc[i]: "idle", "awaiting" (suspended at the await) or "done"
    inp,        \* inp[i]: the arguments of invocation i
    req,        \* req[i]: the backend request invocation i issued
    rep,        \* rep[i]: the backend's reply to invocation i
    out,        \* out[i]: what the caller of invocation i observes
    log,        \* the backend's record of the calls it received, in order
    stub        \* the replies the backend has given so far, by request

vars == <<file, env, defaultAi, pc, inp, req, rep, out, log, stub>>

----------------------------------------------------------------------------
(* Bounds *)

\* concurrent invocations in SpecConc
MaxCalls == 2
\* fragments a backend error message is built from
MaxFrags == 2
\* entries of response.generatedImages
MaxImages == 2
\* content parts of the first candidate
MaxParts == 2

----------------------------------------------------------------------------
(* Text: the string methods the code uses *)

UpperCase ==
    <<"A","B","C","D","E","F","G","H","I","J","K","L","M",
      "N","O","P","Q","R","S","T","U","V","W","X","Y","Z">>

LowerCase ==
    <<"a","b","c","d","e","f","g","h","i","j","k","l","m",
      "n","o","p","q","r","s","t","u","v","w","x","y","z">>

lowerChar(c) ==
    IF \E k \in 1..Len(UpperCase) : UpperCase[k] = c
    THEN LowerCase[CHOOSE k \in 1..Len(UpperCase) : UpperCase[k] = c]
    ELSE c

\* String.prototype.toLowerCase
toLowerCase(s) ==
    [k \in 1..Len(s) |-> lowerChar(s[k])]

\* String.prototype.includes
includes(s, sub) ==
    \E k \in 0..(Len(s) - Len(sub)) : SubSeq(s, k + 1, k + Len(sub)) = sub

WhiteSpace == {" ", "\t", "\n"}

RECURSIVE trimStart(_)
trimStart(s) ==
    IF s # <<>> /\ Head(s) \in WhiteSpace THEN trimStart(Tail(s)) ELSE s

RECURSIVE trimEnd(_)
trimEnd(s) ==
    IF s # <<>> /\ s[Len(s)] \in WhiteSpace
    THEN trimEnd(SubSeq(s, 1, Len(s) - 1))
    ELSE s

\* String.prototype.trim
trim(s) ==
    trimEnd(trimStart(s))

----------------------------------------------------------------------------
(* String literals of the source *)

ModelImagen == "imagen-4.0-generate-001"

ModelEdit == "gemini-2.5-flash-image-preview"

MsgApiKeyNotProvided ==
    <<"A","P","I"," ","k","e","y"," ","n","o","t"," ","p","r","o","v","i","d","e","d","."," ","P","l","e","a","s","e"," ","e","n","t","e","r"," ","a"," ","k","e","y"," ","o","r"," ","c","o","n","f","i","g","u","r","e"," ","t","h","e"," ","e","n","v","i","r","o","n","m","e","n","t"," ","v","a","r","i","a","b","l","e",".">>

MsgPromptOrImageRequired ==
    <<"e","r","r","o","r","_","p","r","o","m","p","t","_","o","r","_","i","m","a","g","e","_","r","e","q","u","i","r","e","d","_","f","o","r","_","e","d","i","t">>

MsgNoImagesReturned ==
    <<"e","r","r","o","r","_","n","o","_","i","m","a","g","e","s","_","r","e","t","u","r","n","e","d">>

\* the TypeError of reading .imageBytes of an entry whose image is undefined
MsgTypeErrorImageBytes ==
    <<"C","a","n","n","o","t"," ","r","e","a","d"," ","p","r","o","p","e","r","t","i","e","s"," ","o","f"," ","u","n","d","e","f","i","n","e","d"," ","(","r","e","a","d","i","n","g"," ","'","i","m","a","g","e","B","y","t","e","s","'",")">>

Marker429 ==
    <<"4","2","9">>

MarkerQuota ==
    <<"q","u","o","t","a">>

MarkerResourceExhausted ==
    <<"r","e","s","o","u","r","c","e","_","e","x","h","a","u","s","t","e","d">>

MarkerApi ==
    <<"a","p","i">>

MarkerKey ==
    <<"k","e","y">>

----------------------------------------------------------------------------
(* Values *)

\* a thrown value: an Error instance with its message, or any other value
\* (message is then the text it carries, which the code never reads)
Thrown(isErr, msg) ==
    [isError |-> isErr, message |-> msg]

NoError == Thrown(FALSE, <<>>)

NoImage == [present |-> FALSE, data |-> "", mimeType |-> ""]

InlinePart(data, mimeType) ==
    [inline |-> TRUE, data |-> data, mimeType |-> mimeType, text |-> <<>>]

TextPart(text) ==
    [inline |-> FALSE, data |-> "", mimeType |-> "", text |-> text]

NoRequest ==
    [op |-> "none", model |-> "", prompt |-> <<>>, aspectRatio |-> "",
     numberOfImages |-> 0, outputMimeType |-> "", parts |-> <<>>,
     responseModalities |-> <<>>, credential |-> ""]

\* the reply of the backend: a rejection with a thrown value, or a response
\* (generatedImages: "undefined" when the field is missing; parts: the
\* content parts of the first candidate, <<>> when any link is missing)
Reject(e) ==
    [rejected |-> TRUE, error |-> e, hasImages |-> FALSE,
     generatedImages |-> <<>>, parts |-> <<>>]

ImagesResponse(has, images) ==
    [rejected |-> FALSE, error |-> NoError, hasImages |-> has,
     generatedImages |-> images, parts |-> <<>>]

ContentResponse(parts) ==
    [rejected |-> FALSE, error |-> NoError, hasImages |-> FALSE,
     generatedImages |-> <<>>, parts |-> parts]

NoReply == ContentResponse(<<>>)

\* an entry of generatedImages: its image may be missing
GeneratedImage(hasImage, bytes) ==
    [hasImage |-> hasImage, imageBytes |-> bytes]

Return(v) ==
    [ok |-> TRUE, val |-> v]

Throw(code) ==
    [ok |-> FALSE, val |-> code]

NoOutcome == [ok |-> FALSE, val |-> ""]

----------------------------------------------------------------------------
(* The code *)

Client(credential) ==
    [threw |-> FALSE, error |-> NoError, credential |-> credential]

ClientError(e) ==
    [threw |-> TRUE, error |-> e, credential |-> ""]

\* getAiClient without its check of the effective key
getAiClient_unchecked(apiKey) ==
    Client(IF apiKey # "" THEN apiKey ELSE env)

\* services/geminiService.ts: the explicit key, else process.env.API_KEY,
\* else an Error
getAiClient(apiKey) ==
    LET effectiveApiKey == IF apiKey # "" THEN apiKey ELSE env
    IN  IF effectiveApiKey = ""
        THEN ClientError(Thrown(TRUE, MsgApiKeyNotProvided))
        ELSE Client(effectiveApiKey)

\* part_001: the explicit key, else the handle built when the module loaded
getAiClient_part001(apiKey) ==
    IF apiKey # "" THEN Client(apiKey) ELSE Client(defaultAi)

resolveClient(apiKey) ==
    IF file = "part_001" THEN getAiClient_part001(apiKey) ELSE getAiClient(apiKey)

\* buildParts with the parts array kept at module scope: the parts of the
\* previous request are still in it
buildParts_hoisted(image, prompt) ==
    (IF log # <<>> THEN log[Len(log)].request.parts ELSE <<>>)
    \o (IF image.present THEN <<InlinePart(image.data, image.mimeType)>> ELSE <<>>)
    \o (IF trim(prompt) # <<>> THEN <<TextPart(prompt)>> ELSE <<>>)

\* the content parts of an edit request: the image first, then the prompt
buildParts(image, prompt) ==
    (IF image.present THEN <<InlinePart(image.data, image.mimeType)>> ELSE <<>>)
    \o (IF trim(prompt) # <<>> THEN <<TextPart(prompt)>> ELSE <<>>)

ImagesRequest(in, credential) ==
    [op |-> "generateImages", model |-> ModelImagen, prompt |-> in.prompt,
     aspectRatio |-> in.aspectRatio, numberOfImages |-> 1,
     outputMimeType |-> "image/png", parts |-> <<>>,
     responseModalities |-> <<>>, credential |-> credential]

ContentRequest(parts, credential) ==
    [op |-> "generateContent", model |-> ModelEdit, prompt |-> <<>>,
     aspectRatio |-> "", numberOfImages |-> 0, outputMimeType |-> "",
     parts |-> parts, responseModalities |-> <<"IMAGE", "TEXT">>,
     credential |-> credential]

\* how a stretch of the try block ends: a return, a throw, or the await of
\* a backend call
StepReturn(v) ==
    [tag |-> "return", value |-> v, error |-> NoError, request |-> NoRequest]

StepThrow(e) ==
    [tag |-> "throw", value |-> "", error |-> e, request |-> NoRequest]

StepAwait(rq) ==
    [tag |-> "await", value |-> "", error |-> NoError, request |-> rq]

\* the try block up to its await
dispatch(in) ==
    LET ai == resolveClient(in.apiKey)
    IN  IF ai.threw THEN StepThrow(ai.error)
        ELSE IF in.model = ModelImagen
        THEN StepAwait(ImagesRequest(in, ai.credential))
        ELSE IF in.model = ModelEdit
        THEN LET parts == buildParts(in.image, in.prompt)
             IN  IF Len(parts) = 0
                 THEN StepThrow(Thrown(TRUE, MsgPromptOrImageRequired))
                 ELSE StepAwait(ContentRequest(parts, ai.credential))
        ELSE StepThrow(Thrown(TRUE, MsgNoImagesReturned))

\* the text-to-image branch after its await
unwrapImages(response) ==
    IF response.hasImages /\ Len(response.generatedImages) > 0
    THEN IF response.generatedImages[1].hasImage
         THEN StepReturn(response.generatedImages[1].imageBytes)
         ELSE StepThrow(Thrown(TRUE, MsgTypeErrorImageBytes))
    ELSE StepThrow(Thrown(TRUE, MsgNoImagesReturned))

\* scanParts without its early return: the last inline part wins
scanParts_last(parts) ==
    IF \E k \in 1..Len(parts) : parts[k].inline
    THEN StepReturn(parts[CHOOSE k \in 1..Len(parts) :
                            /\ parts[k].inline
                            /\ \A j \in (k + 1)..Len(parts) : ~parts[j].inline].data)
    ELSE StepThrow(Thrown(TRUE, MsgNoImagesReturned))

\* the edit branch after its await: the loop over the content parts
RECURSIVE scanParts(_)
scanParts(parts) ==
    IF parts = <<>> THEN StepThrow(Thrown(TRUE, MsgNoImagesReturned))
    ELSE IF Head(parts).inline THEN StepReturn(Head(parts).data)
    ELSE scanParts(Tail(parts))

\* the try block from the await on
unwrap(request, reply) ==
    IF reply.rejected THEN StepThrow(reply.error)
    ELSE IF request.op = "generateImages" THEN unwrapImages(reply)
    ELSE scanParts(reply.parts)

\* classify without toLowerCase
classify_caseSensitive(error) ==
    IF error.isError
    THEN LET errorMessage == error.message
         IN  IF \/ includes(errorMessage, Marker429)
                \/ includes(errorMessage, MarkerQuota)
                \/ includes(errorMessage, MarkerResourceExhausted)
             THEN "error_quota"
             ELSE IF includes(errorMessage, MarkerApi) /\ includes(errorMessage, MarkerKey)
             THEN "error_api_key"
             ELSE "error_generic"
    ELSE "error_generic"

\* classify without its test for "api" and "key"
classify_noApiKey(error) ==
    IF error.isError
    THEN LET errorMessage == toLowerCase(error.message)
         IN  IF \/ includes(errorMessage, Marker429)
                \/ includes(errorMessage, MarkerQuota)
                \/ includes(errorMessage, MarkerResourceExhausted)
             THEN "error_quota"
             ELSE "error_generic"
    ELSE "error_generic"

\* classify with || between its tests for "api" and "key"
classify_apiOrKey(error) ==
    IF error.isError
    THEN LET errorMessage == toLowerCase(error.message)
         IN  IF \/ includes(errorMessage, Marker429)
                \/ includes(errorMessage, MarkerQuota)
                \/ includes(errorMessage, MarkerResourceExhausted)
             THEN "error_quota"
             ELSE IF includes(errorMessage, MarkerApi) \/ includes(errorMessage, MarkerKey)
             THEN "error_api_key"
             ELSE "error_generic"
    ELSE "error_generic"

\* classify rethrowing what is no Error
classify_rethrow(error) ==
    IF error.isError
    THEN LET errorMessage == toLowerCase(error.message)
         IN  IF \/ includes(errorMessage, Marker429)
                \/ includes(errorMessage, MarkerQuota)
                \/ includes(errorMessage, MarkerResourceExhausted)
             THEN "error_quota"
             ELSE IF includes(errorMessage, MarkerApi) /\ includes(errorMessage, MarkerKey)
             THEN "error_api_key"
             ELSE "error_generic"
    ELSE "the thrown value"

\* the catch block
classify(error) ==
    IF error.isError
    THEN LET errorMessage == toLowerCase(error.message)
         IN  IF \/ includes(errorMessage, Marker429)
                \/ includes(errorMessage, MarkerQuota)
                \/ includes(errorMessage, MarkerResourceExhausted)
             THEN "error_quota"
             ELSE IF includes(errorMessage, MarkerApi) /\ includes(errorMessage, MarkerKey)
             THEN "error_api_key"
             ELSE "error_generic"
    ELSE "error_generic"

\* what the caller observes when a stretch of the try block ends
settle(step) ==
    IF step.tag = "return" THEN Return(step.value) ELSE Throw(classify(step.error))

----------------------------------------------------------------------------
(* Inputs of generateImage *)

PromptFox ==
    <<"a"," ","r","e","d"," ","f","o","x">>

PromptPadded ==
    <<" ","f","o","x"," ">>

PromptBlank ==
    <<" ","\t">>

Prompts == {<<>>, PromptBlank, PromptFox, PromptPadded}

SomeImage == [present |-> TRUE, data |-> "SRCIMG", mimeType |-> "image/jpeg"]

Inputs ==
    [prompt : Prompts, aspectRatio : {"1:1", "16:9"},
     model : {ModelImagen, ModelEdit, "imagen-3.0"},
     image : {NoImage, SomeImage}, apiKey : {"", "USERKEY"}]

\* the inputs of the concurrent invocations
ConcInputs ==
    {in \in Inputs : /\ in.aspectRatio = "1:1"
                     /\ in.apiKey = ""
                     /\ \/ in.model = ModelImagen /\ in.prompt = PromptFox /\ in.image = NoImage
                        \/ in.model = ModelEdit /\ in.prompt = <<>>
                        \/ in.model = ModelEdit /\ in.prompt = PromptFox /\ in.image = NoImage}

----------------------------------------------------------------------------
(* Behaviours of the backend *)

Frag429 ==
    <<"4","2","9"," ">>

FragQuota ==
    <<"Q","u","o","t","a"," ","e","x","c","e","e","d","e","d"," ">>

FragResource ==
    <<"R","E","S","O","U","R","C","E","_","E","X","H","A","U","S","T","E","D"," ">>

FragApi ==
    <<"A","P","I"," ">>

FragKey ==
    <<"k","e","y"," ","n","o","t"," ","v","a","l","i","d"," ">>

FragAp ==
    <<"A","P">>

FragIKey ==
    <<"I"," ","K","e","y"," ">>

FragNetwork ==
    <<"N","e","t","w","o","r","k"," ","e","r","r","o","r"," ">>

\* the consumer a quota error names
FragConsumer ==
    <<"a","p","i","_","k","e","y",":","A","I","z","a"," ">>

Frags ==
    {Frag429, FragQuota, FragResource, FragApi, FragKey, FragAp, FragIKey,
     FragNetwork, FragConsumer}

RECURSIVE concat(_)
concat(fs) ==
    IF fs = <<>> THEN <<>> ELSE Head(fs) \o concat(Tail(fs))

\* the messages of the errors the backend raises
ErrorMessages ==
    {concat(fs) : fs \in UNION {[1..n -> Frags] : n \in 0..MaxFrags}}

\* what a backend call can throw: an Error with one of the messages, or a
\* value that is no Error
ThrownValues ==
    {Thrown(TRUE, m) : m \in ErrorMessages}
    \cup {Thrown(FALSE, m) : m \in {<<>>, Frag429, FragApi \o FragKey}}

GeneratedImages ==
    {GeneratedImage(TRUE, "AAAA"), GeneratedImage(TRUE, "CCCC"), GeneratedImage(FALSE, "")}

ImagesReplies ==
    {Reject(e) : e \in ThrownValues}
    \cup {ImagesResponse(FALSE, <<>>)}
    \cup {ImagesResponse(TRUE, g) :
            g \in UNION {[1..n -> GeneratedImages] : n \in 0..MaxImages}}

ResponseParts ==
    {TextPart(<<"o","k">>), InlinePart("BBBB", "image/png"), InlinePart("DDDD", "image/png")}

ContentReplies ==
    {Reject(e) : e \in ThrownValues}
    \cup {ContentResponse(ps) :
            ps \in UNION {[1..n -> ResponseParts] : n \in 0..MaxParts}}

Replies(op) ==
    IF op = "generateImages" THEN ImagesReplies ELSE ContentReplies

\* the replies of the backend the concurrent invocations run against
ConcReplies(op) ==
    {r \in Replies(op) :
        \/ r.rejected /\ r.error = Thrown(TRUE, Frag429)
        \/ /\ ~r.rejected
           /\ r.generatedImages \in {<<>>, <<GeneratedImage(TRUE, "AAAA")>>}
           /\ r.parts \in {<<>>, <<InlinePart("BBBB", "image/png")>>}
           /\ r.hasImages = (op = "generateImages")}

----------------------------------------------------------------------------
(* The state machine *)

Calls == 1..MaxCalls

\* part_001 throws while loading when process.env.API_KEY is unset, and
\* otherwise binds defaultAi to it; geminiService.ts has no module state
Init ==
    /\ file \in {"geminiService", "part_001"}
    /\ env \in {"", "ENVKEY"}
    /\ file = "part_001" => env # ""
    /\ defaultAi = IF file = "part_001" THEN env ELSE ""
    /\ pc = [i \in Calls |-> "idle"]
    /\ inp = [i \in Calls |-> CHOOSE in \in Inputs : TRUE]
    /\ req = [i \in Calls |-> NoRequest]
    /\ rep = [i \in Calls |-> NoReply]
    /\ out = [i \in Calls |-> NoOutcome]
    /\ log = <<>>
    /\ stub = {}

\* generateImage is called and runs to its await, or to its end
generateImage(i, in) ==
    /\ pc[i] = "idle"
    /\ inp' = [inp EXCEPT ![i] = in]
    /\ LET step == dispatch(in)
       IN  IF step.tag = "await"
           THEN /\ pc' = [pc EXCEPT ![i] = "awaiting"]
                /\ req' = [req EXCEPT ![i] = step.request]
                /\ log' = Append(log, [by |-> i, request |-> step.request])
                /\ out' = out
           ELSE /\ pc' = [pc EXCEPT ![i] = "done"]
                /\ out' = [out EXCEPT ![i] = settle(step)]
                /\ UNCHANGED <<req, log>>
    /\ UNCHANGED <<file, env, defaultAi, rep, stub>>

\* the backend calls invocation i made
calls(i) ==
    Cardinality({k \in 1..Len(log) : log[k].by = i})

\* the backend answers as it answered the same request before
answers(rq, r) ==
    IF \E a \in stub : a.request = rq
    THEN [request |-> rq, reply |-> r] \in stub
    ELSE TRUE

\* resume with a retry: a rejected call is issued again
resume_retry(i, r) ==
    /\ pc[i] = "awaiting"
    /\ answers(req[i], r)
    /\ stub' = stub \cup {[request |-> req[i], reply |-> r]}
    /\ rep' = [rep EXCEPT ![i] = r]
    /\ IF r.rejected /\ calls(i) < 3
       THEN /\ log' = Append(log, [by |-> i, request |-> req[i]])
            /\ UNCHANGED <<out, pc>>
       ELSE /\ out' = [out EXCEPT ![i] = settle(unwrap(req[i], r))]
            /\ pc' = [pc EXCEPT ![i] = "done"]
            /\ log' = log
    /\ UNCHANGED <<file, env, defaultAi, inp, req>>

\* the backend call of invocation i settles with reply r and generateImage
\* runs to its end
resume(i, r) ==
    /\ pc[i] = "awaiting"
    /\ answers(req[i], r)
    /\ stub' = stub \cup {[request |-> req[i], reply |-> r]}
    /\ rep' = [rep EXCEPT ![i] = r]
    /\ out' = [out EXCEPT ![i] = settle(unwrap(req[i], r))]
    /\ pc' = [pc EXCEPT ![i] = "done"]
    /\ UNCHANGED <<file, env, defaultAi, inp, req, log>>

\* one invocation, any inputs, any backend behaviour
Invoke ==
    \E in \in Inputs : generateImage(1, in)

Resume ==
    \E r \in Replies(req[1].op) : resume(1, r)

Next ==
    Invoke \/ Resume

Spec ==
    Init /\ [][Next]_vars

\* concurrent invocations against a deterministic backend
InvokeConc ==
    \E i \in Calls : \E in \in ConcInputs : generateImage(i, in)

ResumeConc ==
    \E i \in Calls : \E r \in ConcReplies(req[i].op) : resume(i, r)

NextConc ==
    InvokeConc \/ ResumeConc

SpecConc ==
    Init /\ [][NextConc]_vars

----------------------------------------------------------------------------
(* Properties *)

ErrorCodes ==
    {"error_api_key", "error_quota", "error_prompt_or_image_required_for_edit",
     "error_no_images_returned", "error_generic"}

\* a credential resolves for invocation i
Resolvable(i) ==
    inp[i].apiKey # "" \/ env # ""

\* invocation i is an edit call with nothing to send
NothingToEdit(i) ==
    /\ inp[i].model = ModelEdit
    /\ trim(inp[i].prompt) = <<>>
    /\ ~inp[i].image.present

\* the backend call of invocation i was rejected
Rejected(i) ==
    pc[i] = "done" /\ calls(i) = 1 /\ rep[i].rejected

\* message m, lowercased, holds one of the quota markers
HasQuotaMarker(m) ==
    \/ includes(toLowerCase(m), Marker429)
    \/ includes(toLowerCase(m), MarkerQuota)
    \/ includes(toLowerCase(m), MarkerResourceExhausted)

\* message m, lowercased, holds both "api" and "key"
HasApiAndKey(m) ==
    includes(toLowerCase(m), MarkerApi) /\ includes(toLowerCase(m), MarkerKey)

\* invocation i ended without a payload and without a backend error
NoPayload(i) ==
    /\ pc[i] = "done"
    /\ Resolvable(i)
    /\ \/ /\ inp[i].model = ModelImagen
          /\ ~rep[i].rejected
          /\ ~rep[i].hasImages \/ Len(rep[i].generatedImages) = 0
       \/ /\ inp[i].model = ModelEdit
          /\ calls(i) = 1
          /\ ~rep[i].rejected
          /\ \A k \in 1..Len(rep[i].parts) : ~rep[i].parts[k].inline
       \/ inp[i].model \notin {ModelImagen, ModelEdit}

\* C1: an edit call with a credential, a blank prompt and no image fails
\* with error_prompt_or_image_required_for_edit and makes no backend call.
C1_EditValidationCode ==
    (pc[1] = "done" /\ Resolvable(1) /\ NothingToEdit(1))
        => out[1] = Throw("error_prompt_or_image_required_for_edit") /\ calls(1) = 0

\* C2: a call that obtains no image payload, the backend raising no error,
\* fails with error_no_images_returned.
C2_NoImagesCode ==
    NoPayload(1) => out[1] = Throw("error_no_images_returned")

\* C3: with no explicit credential and no process-wide default, the call
\* fails with error_api_key and never reaches the backend.
C3_MissingCredential ==
    (pc[1] # "idle" /\ inp[1].apiKey = "" /\ env = "")
        => pc[1] = "done" /\ out[1] = Throw("error_api_key") /\ calls(1) = 0 /\ log = <<>>

C3_Witness ==
    /\ pc[1] = "done" /\ inp[1].apiKey = "" /\ env = ""
    /\ inp[1].model = ModelImagen
    /\ out[1] = Throw("error_api_key")

\* C4: a backend Error whose message holds "429", "quota" or
\* "resource_exhausted" in any case is reported as error_quota, in either
\* model branch.
C4_QuotaCode ==
    \A op \in {"generateImages", "generateContent"} :
        (Rejected(1) /\ req[1].op = op /\ rep[1].error.isError
            /\ HasQuotaMarker(rep[1].error.message))
        => out[1] = Throw("error_quota")

C4_Witness ==
    /\ Rejected(1) /\ req[1].op = "generateContent"
    /\ rep[1].error = Thrown(TRUE, FragResource)
    /\ out[1] = Throw("error_quota")

\* C5 as stated: a backend Error whose message holds both "api" and "key"
\* in any case is reported as error_api_key.
C5_ApiKeyCode ==
    (Rejected(1) /\ rep[1].error.isError /\ HasApiAndKey(rep[1].error.message))
        => out[1] = Throw("error_api_key")

\* C5 as amended: a backend Error whose message holds both "api" and "key"
\* and none of the quota markers is reported as error_api_key.
C5_ApiKeyCodeUnlessQuota ==
    (Rejected(1) /\ rep[1].error.isError /\ HasApiAndKey(rep[1].error.message)
        /\ ~HasQuotaMarker(rep[1].error.message))
        => out[1] = Throw("error_api_key")

C5_Witness ==
    /\ Rejected(1)
    /\ rep[1].error = Thrown(TRUE, FragAp \o FragIKey)
    /\ out[1] = Throw("error_api_key")

\* C6: a backend error whose message holds no quota marker and not both
\* "api" and "key" is reported as error_generic.
C6_GenericCode ==
    (Rejected(1) /\ ~HasQuotaMarker(rep[1].error.message)
        /\ ~HasApiAndKey(rep[1].error.message))
        => out[1] = Throw("error_generic")

C6_Witness ==
    /\ Rejected(1)
    /\ rep[1].error = Thrown(TRUE, FragApi \o FragNetwork)
    /\ out[1] = Throw("error_generic")

\* C7: an invocation makes at most one backend call, none once it has
\* ended, and none when it fails on a missing credential or on the edit
\* validation.
C7_AtMostOneCall ==
    /\ calls(1) <= 1
    /\ pc[1] = "done" /\ ~out[1].ok => calls(1) = IF req[1] = NoRequest THEN 0 ELSE 1
    /\ (pc[1] = "done" /\ ~Resolvable(1)) => calls(1) = 0
    /\ (pc[1] = "done" /\ NothingToEdit(1)) => calls(1) = 0

C7_Witness ==
    /\ Rejected(1) /\ ~out[1].ok
    /\ Len(log) = 1

\* C8: a successful call returns the first generated image of the
\* text-to-image response, or the data of the first content part that
\* carries inline data of the edit response.
C8_FirstImage ==
    (pc[1] = "done" /\ out[1].ok) =>
        /\ calls(1) = 1 /\ ~rep[1].rejected
        /\ inp[1].model \in {ModelImagen, ModelEdit}
        /\ inp[1].model = ModelImagen =>
              /\ Len(rep[1].generatedImages) > 0
              /\ out[1].val = rep[1].generatedImages[1].imageBytes
        /\ inp[1].model = ModelEdit =>
              \E k \in 1..Len(rep[1].parts) :
                  /\ rep[1].parts[k].inline
                  /\ \A j \in 1..(k - 1) : ~rep[1].parts[j].inline
                  /\ out[1].val = rep[1].parts[k].data

C8_Witness ==
    /\ pc[1] = "done" /\ inp[1].model = ModelEdit
    /\ inp[1].image.present /\ inp[1].prompt = <<>>
    /\ rep[1].parts = <<InlinePart("BBBB", "image/png"), InlinePart("DDDD", "image/png")>>
    /\ out[1] = Return("BBBB")

\* C9: a failed invocation fails with one of the five error codes, whatever
\* was thrown.
C9_StableCodes ==
    (pc[1] = "done" /\ ~out[1].ok) => out[1].val \in ErrorCodes

C9_Witness ==
    /\ Rejected(1)
    /\ rep[1].error = Thrown(FALSE, Frag429)
    /\ out[1] = Throw("error_generic")

====
